---- MODULE Spec2Model ----
(***************************************************************************)
(* Model of moler's ThreadPoolExecutorRunner (src/moler/runner.py) feeding *)
(* one connection observer: the caller thread (start, submit, wait_for,    *)
(* future.cancel), the pool worker running feed()/_feed_loop(), and the    *)
(* connection's delivery thread running secure_data_received().            *)
(* Time is a discrete clock; one unit stands for any positive duration.    *)
(* A second part models TextualDevice.goto_state()                         *)
(* (src/moler/device/textualdevice.py) over a table of transitions and     *)
(* state hops, the observers the device creates for its current state and  *)
(* the connection notifications. A third part models the Scheduler         *)
(* singleton and its jobs (src/moler/scheduler.py).                        *)
(***************************************************************************)
EXTENDS Integers, Sequences, FiniteSets, TLC

\* ---------------------------------------------------------------- bounds
MaxTime == 3        \* the clock runs from 1 to MaxTime
MaxTimeout == 2     \* observer.timeout ranges over 1..MaxTimeout
MaxWait == 2        \* explicit wait_for(timeout=T) ranges over 1..MaxWait
MaxChunks == 1      \* chunks the transport pushes into the connection
MaxActions == 3     \* transition actions recorded per goto_state() call
MaxHops == 2        \* entries of the state-hop table of a device subclass
MaxConstructs == 2  \* calls of the Scheduler constructor
MaxSchedulers == 2  \* BackgroundScheduler / AsyncIOScheduler objects created
MaxCalls == 2       \* invocations of job callbacks

\* ---------------------------------------------------------------- state
VARIABLES
    observer,       \* the connection observer: kind, start_time, timeout, status, result, exception
    subscribers,    \* moler_conn: the set of subscribed receivers
    sentLines,      \* moler_conn: number of lines written with sendline()
    in_shutdown,    \* runner._in_shutdown
    stop_feeding,   \* submission: threading.Event stop_feeding
    feed_done,      \* submission: threading.Event feed_done
    observer_lock,  \* submission: threading.Lock; its holder, or "free"
    fstate,         \* state of the concurrent.futures.Future returned by executor.submit
    feedArg,        \* subscribed_data_receiver argument handed to feed(): TRUE when a receiver
    cpc,            \* caller thread position
    wait_until,     \* caller: clock value at which its blocking wait (wait() in wait_for,
                    \* _is_done.wait() in _stop) expires
    max_timeout,    \* wait_for: local max_timeout, the timeout argument (0 for None)
    observer_timeout, \* wait_for: the value of connection_observer.timeout it read last
    remain_time,    \* wait_for: local remain_time of the polling loop (0 outside it)
    lastRet,        \* which return statement of wait_for was taken last
    fpc,            \* pool worker position inside feed()
    rpc,            \* delivery thread position inside secure_data_received()
    chunkNo,        \* number of the chunk being (or last) delivered
    received,       \* chunks passed to observer.data_received, in call order
    lost,           \* chunks delivered to no receiver although submit() had returned
    on_timeout_calls, \* how many times observer.on_timeout() ran
    deadline_reached, \* how start_time + timeout was first reached while the observer
                    \* was not done: "no", "by_clock" or "by_assignment"
    now,            \* time.time()
    transitions,    \* device: the <<source, dest>> pairs of self._transitions
    state_hops,     \* device: self._state_hops, <<current, dest>> -> next state or "none"
    current_state,  \* device: self.state of the state machine
    dpc,            \* device: position of the thread inside goto_state()
    goto_from,      \* goto_state: the state the device was in when it was called
    dest_state,     \* goto_state: its argument
    change_state_method, \* goto_state: local change_state_method, a trigger or NoMethod
    actions_run,    \* goto_state: the transitions whose actions ran, in order
    goto_outcome,   \* goto_state: "returned", or the exception that left it
    last_set_by,    \* device: what set current_state last: "init", "made", "lost" or "goto"
    io_call,        \* goto_state: the call on io_connection its last transition action made
    cmdnames_available_in_state,   \* device: self._cmdnames_available_in_state
    eventnames_available_in_state, \* device: self._eventnames_available_in_state
    get_request,    \* device: the type, name and check_state of the last get_cmd()/get_event()
    dev_observer,   \* device: what the last get_cmd()/get_event() returned, or NoObserver
    get_outcome,    \* device: "observer", or the exception that left get_cmd()/get_event()
    start_outcome,  \* dev_observer: where its _validate_start() ended at start()
    sched_object,   \* Scheduler._object: the installed instance, 0 for None
    sched_type,     \* the installed instance's _scheduler_type
    sched_scheduler, \* the installed instance's _scheduler, 0 for None
    sched_alive,    \* the schedulers started and not shut down
    ctor_calls,     \* how many times Scheduler.__init__ was entered
    aps_made,       \* how many BackgroundScheduler / AsyncIOScheduler objects were created
    spc,            \* per thread: its position inside Scheduler.get_job()
    sched_outcome,  \* per thread: how its last Scheduler call ended
    job,            \* per thread: the job its get_job() call created
    cb_calls,       \* how many times the scheduler invoked a job's callable
    cb_last         \* the job and the outcome of the last invocation

vars == <<observer, subscribers, sentLines, in_shutdown, stop_feeding, feed_done,
          observer_lock, fstate, feedArg, cpc, wait_until, max_timeout,
          observer_timeout, remain_time, lastRet, fpc, rpc, chunkNo, received, lost,
          on_timeout_calls, deadline_reached, now,
          transitions, state_hops, current_state, dpc, goto_from, dest_state,
          change_state_method, actions_run, goto_outcome, last_set_by, io_call,
          cmdnames_available_in_state, eventnames_available_in_state, get_request,
          dev_observer, get_outcome, start_outcome,
          sched_object, sched_type, sched_scheduler, sched_alive, ctor_calls, aps_made,
          spc, sched_outcome, job, cb_calls, cb_last>>

gateVars == <<cmdnames_available_in_state, eventnames_available_in_state, get_request,
              dev_observer, get_outcome, start_outcome>>

devVars == <<transitions, state_hops, current_state, dpc, goto_from, dest_state,
             change_state_method, actions_run, goto_outcome, last_set_by, io_call,
             gateVars>>

schedVars == <<sched_object, sched_type, sched_scheduler, sched_alive, ctor_calls,
               aps_made, spc, sched_outcome, job, cb_calls, cb_last>>

Kinds == {"command", "event"}
Terminal == {"done_ok", "done_err", "cancelled", "timed_out"}
Receiver == "secure_data_received"

\* ------------------------------------------------- observer (spec section 3, 4.2)
done(o) == o.status \in Terminal

cancelled(o) == o.status = "cancelled"

is_command(o) == o.kind = "command"

\* start(): records start_time
start(o, t) == [o EXCEPT !.start_time = t, !.status = "running"]

\* set_result(): terminal transition; a repeated terminal attempt is a no-op
set_result(o, r) ==
    IF done(o) THEN o ELSE [o EXCEPT !.status = "done_ok", !.result = r]

\* set_exception(): terminal transition; a repeated terminal attempt is a no-op
set_exception(o, e) ==
    IF done(o) THEN o
    ELSE [o EXCEPT !.status = IF e \in {"CommandTimeout", "ConnectionObserverTimeout"}
                              THEN "timed_out" ELSE "done_err",
                   !.exception = e]

\* cancel(): terminal transition to cancelled; idempotent
cancel(o) == IF done(o) THEN o ELSE [o EXCEPT !.status = "cancelled"]

\* data_received(chunk): the parser hook. It may keep waiting for more data,
\* set the result, or raise; on a terminal observer the chunk is ignored.
ParserOutcomes == {"more", "result", "raise"}

data_received(o, outcome) ==
    IF outcome = "result" THEN set_result(o, "res") ELSE o

\* ------------------------------------------------- runner helpers
\* time_out_observer(): the exception written when the observer is not done
TimeoutException(o) ==
    IF is_command(o) THEN "CommandTimeout" ELSE "ConnectionObserverTimeout"

\* mutant of must_time_out: the done() test is missing
must_time_out_unguarded(o) == TRUE

\* time_out_observer(), line 105: if not connection_observer.done()
must_time_out(o) == ~done(o)

\* mutant of time_out_observer: the timeout exception is written over whatever
\* the observer holds
time_out_observer_overwrite(o) ==
    [o EXCEPT !.status = "timed_out", !.exception = TimeoutException(o)]

\* time_out_observer(), lines 105-114: the observer after the call
time_out_observer(o) ==
    IF must_time_out(o) THEN set_exception(o, TimeoutException(o)) ELSE o

\* time_out_observer(), line 116: whether connection_observer.on_timeout() is reached
fires_on_timeout(o) == must_time_out(o)

\* his_remaining_time(): timeout - (time.time() - start_time), floored at 0
his_remaining_time(o, timeout, t) ==
    LET remain == timeout - (t - o.start_time)
    IN  IF remain < 0 THEN 0 ELSE remain

\* concurrent.futures.Future.done()
future_done(s) == s \in {"FINISHED", "CANCELLED"}

\* CancellableFuture.cancel(no_wait=True): the new future state
cancel_no_wait_state(s) == IF s = "PENDING" THEN "CANCELLED" ELSE s

\* CancellableFuture.cancel(no_wait=True): whether _stop() sets stop_running
cancel_no_wait_stops(s) == s = "RUNNING"

\* CancellableFuture(stop_timeout=0.5): how long cancel() waits for the done flag;
\* one unit of the clock
StopTimeout == 1

\* ThreadPoolExecutorRunner(): executor=None, the runner creates and owns its pool
IOwnExecutor == TRUE

Bump(n) == IF n < 2 THEN n + 1 ELSE n

\* ------------------------------------------------- device helpers
\* TextualDevice.connected, TextualDevice.not_connected and one state of a subclass
DevStates == {"NOT_CONNECTED", "CONNECTED", "UNIX"}

DevPairs == {p \in DevStates \X DevStates : p[1] # p[2]}

NoMethod == <<>>

\* build_trigger_to_state(): "GOTO_{}".format(state)
build_trigger_to_state(state) == <<"GOTO", state>>

\* TextualDevice.goto_states_triggers: build_trigger_to_state() has added the trigger
\* of every destination that _add_transitions() went through
goto_states_triggers == {build_trigger_to_state(p[2]) : p \in transitions}

\* _prepare_transitions(): the table of TextualDevice itself
DefaultTransitions == {<<"CONNECTED", "NOT_CONNECTED">>, <<"NOT_CONNECTED", "CONNECTED">>}

\* _prepare_state_hops(): no hops in TextualDevice itself
NoHops == [p \in DevPairs |-> "none"]

\* the state machine: a trigger fires from a state that has a transition to the
\* trigger's destination
can_trigger(state, trigger) == <<state, trigger[2]>> \in transitions

\* mutant of next_state: the state hops are ignored
next_state_direct(cur, dest) == dest

\* goto_state(), lines 151-156: the state the next trigger leads to
next_state(cur, dest) ==
    IF cur # dest /\ state_hops[<<cur, dest>>] # "none"
    THEN state_hops[<<cur, dest>>] ELSE dest

\* goto_state(), lines 158-160: the trigger found for the state in
\* goto_states_triggers; change_state_method keeps its value when none is found
found_method(state, method) ==
    IF build_trigger_to_state(state) \in goto_states_triggers
    THEN build_trigger_to_state(state) ELSE method

\* _prepare_transitions(), lines 74-91: the action of a transition of
\* TextualDevice's own table; the other transitions have actions of a subclass
transition_action(source, dest) ==
    IF <<source, dest>> = <<"CONNECTED", "NOT_CONNECTED">> THEN "_open_connection"
    ELSE IF <<source, dest>> = <<"NOT_CONNECTED", "CONNECTED">> THEN "_close_connection"
    ELSE "subclass_action"

\* _open_connection() and _close_connection(), lines 351-356: the call an action
\* makes on io_connection; before is kept for an action of a subclass
io_call_of(action, before) ==
    IF action = "_open_connection" THEN "open"
    ELSE IF action = "_close_connection" THEN "close"
    ELSE before

\* the record of the actions run, kept up to MaxActions entries
Record(log, p) == IF Len(log) < MaxActions THEN Append(log, p) ELSE log

\* _add_transitions(), line 341: the actions of a transition are its 'before'
\* callbacks; they run through, or one of them raises before the state changes
ActionResults == {"ok", "raise"}

\* TextualDevice.cmds and TextualDevice.events
ObserverTypes == {"cmd", "event"}

\* the names get_cmd() and get_event() are asked for
ObserverNames == {"ping"}

NoObserver == [type |-> "none", name |-> "none", connection |-> "none",
               check_state |-> FALSE, creation_state |-> "none"]

\* _get_observer_in_state(), lines 221-224: the names available in the state
available_observer_names(type, state) ==
    IF type = "cmd" THEN cmdnames_available_in_state[state]
    ELSE eventnames_available_in_state[state]

\* get_cmd() and get_event(): the observer_exception handed to get_observer()
observer_exception(type) ==
    IF type = "cmd" THEN "CommandWrongState" ELSE "EventWrongState"

\* mutant of validate_start: the device state is not compared
validate_start_unchecked(o, cur) == "original_fun"

\* get_observer(), lines 262-275: observer._validate_start as start() finds it.
\* With check_state the wrapper compares the device state with creation_state
\* and calls original_fun or raises observer_exception; without check_state
\* _validate_start is the observer's own
validate_start(o, cur) ==
    IF o.check_state
    THEN IF cur = o.creation_state THEN "original_fun" ELSE observer_exception(o.type)
    ELSE "original_fun"

\* ------------------------------------------------- scheduler helpers
\* the threads that use the Scheduler
Threads == {1, 2}

\* the scheduler_type arguments: None, the two kinds and an unknown one
TypeArgs == {"None", "thread", "asyncio", "process"}

\* _create_scheduler(), lines 98-103: the kinds a scheduler exists for
SchedulerTypes == {"thread", "asyncio"}

\* _swap_scheduler(), lines 82-83: None stands for 'thread'
swap_type(arg) == IF arg = "None" THEN "thread" ELSE arg

NoJob == [state |-> "none", cancel_on_exception |-> FALSE, scheduler |-> 0,
          last_call |-> "none", callable |-> "none", linked |-> FALSE]

\* get_job(), line 34: what add_job() is given as the function to invoke,
\* decorated.callback: the callback that get_job() received
added_callable == "callback"

\* DecoratedCallable.call(), lines 115-124: the callback runs; when it raises and
\* cancel_on_exception is set and the job is linked, the job is cancelled
call(j, result) ==
    IF result = "raise" /\ j.cancel_on_exception /\ j.linked
    THEN [j EXCEPT !.state = "paused", !.last_call = "cancel"]
    ELSE j

\* the job after the scheduler invoked its function: DecoratedCallable.call() acts
\* when it is the function that was added, the plain callback changes nothing
invoked(j, result) == IF j.callable = "call" THEN call(j, result) ELSE j

\* ---------------------------------------------------------------- Init
\* the runner part before the observer is started
RunnerInit ==
    /\ observer \in [kind : Kinds, start_time : {0}, timeout : 1..MaxTimeout,
                     status : {"pending"}, result : {"none"}, exception : {"none"}]
    /\ subscribers = {}
    /\ sentLines = 0
    /\ in_shutdown = FALSE
    /\ stop_feeding = FALSE
    /\ feed_done = FALSE
    /\ observer_lock = "free"
    /\ fstate = "none"
    /\ feedArg = FALSE
    /\ cpc = "new"
    /\ wait_until = 0
    /\ max_timeout = 0
    /\ observer_timeout = 0
    /\ remain_time = 0
    /\ lastRet = "none"
    /\ fpc = "none"
    /\ rpc = "idle"
    /\ chunkNo = 0
    /\ received = <<>>
    /\ lost = {}
    /\ on_timeout_calls = 0
    /\ deadline_reached = "no"
    /\ now = 1

\* the device part: TextualDevice() with its own table, before the connection opens
DeviceIdle ==
    /\ current_state = "NOT_CONNECTED"
    /\ dpc = "idle"
    /\ goto_from = "NOT_CONNECTED"
    /\ dest_state = "NOT_CONNECTED"
    /\ change_state_method = NoMethod
    /\ actions_run = <<>>
    /\ goto_outcome = "none"
    /\ last_set_by = "init"
    /\ io_call = "none"
    /\ get_request = <<"none", "none", FALSE>>
    /\ dev_observer = NoObserver
    /\ get_outcome = "none"
    /\ start_outcome = "none"

\* a device without commands and events
NoNames ==
    /\ cmdnames_available_in_state = [st \in DevStates |-> {}]
    /\ eventnames_available_in_state = [st \in DevStates |-> {}]

\* the scheduler part before Scheduler is used
SchedulerIdle ==
    /\ sched_object = 0
    /\ sched_type = "none"
    /\ sched_scheduler = 0
    /\ sched_alive = {}
    /\ ctor_calls = 0
    /\ aps_made = 0
    /\ spc = [t \in Threads |-> "idle"]
    /\ sched_outcome = [t \in Threads |-> "none"]
    /\ job = [t \in Threads |-> NoJob]
    /\ cb_calls = 0
    /\ cb_last = <<0, "none">>

Init ==
    /\ RunnerInit
    /\ transitions = DefaultTransitions
    /\ state_hops = NoHops
    /\ DeviceIdle
    /\ NoNames
    /\ SchedulerIdle

\* _prepare_state_hops() of a subclass: the tables with at most n hops
HopTables(n) ==
    {h \in [DevPairs -> DevStates \cup {"none"}] :
        Cardinality({p \in DevPairs : h[p] # "none"}) <= n}

\* a device of a subclass: _prepare_transitions() and _prepare_state_hops() of the
\* subclass fill the tables; at most one hop is configured
DeviceInit ==
    /\ RunnerInit
    /\ observer.kind = "command" /\ observer.timeout = 1
    /\ transitions \in SUBSET DevPairs
    /\ state_hops \in HopTables(1)
    /\ DeviceIdle
    /\ NoNames
    /\ SchedulerIdle

\* a device of a subclass with a transition between any two states and up to
\* MaxHops hops
DeviceHopsInit ==
    /\ RunnerInit
    /\ observer.kind = "command" /\ observer.timeout = 1
    /\ transitions = DevPairs
    /\ state_hops \in HopTables(MaxHops)
    /\ DeviceIdle
    /\ NoNames
    /\ SchedulerIdle

\* a device whose commands and events are collected per state by
\* _collect_cmds_for_state_machine() and _collect_events_for_state_machine()
GateInit ==
    /\ RunnerInit
    /\ observer.kind = "command" /\ observer.timeout = 1
    /\ transitions = DefaultTransitions
    /\ state_hops = NoHops
    /\ DeviceIdle
    /\ cmdnames_available_in_state \in [DevStates -> SUBSET ObserverNames]
    /\ eventnames_available_in_state \in [DevStates -> SUBSET ObserverNames]
    /\ SchedulerIdle

connVars == <<subscribers, sentLines>>
subVars == <<stop_feeding, feed_done, observer_lock, fstate, feedArg>>
waitVars == <<wait_until, max_timeout, observer_timeout, remain_time, lastRet>>
rxVars == <<rpc, chunkNo, received, lost>>
histVars == <<on_timeout_calls, deadline_reached>>

\* ---------------------------------------------------------------- caller thread
\* connection_observer.start(): the lifetime clock starts
Start ==
    /\ cpc = "new"
    /\ observer' = start(observer, now)
    /\ cpc' = "started"
    /\ UNCHANGED <<connVars, in_shutdown, subVars, waitVars, fpc, rxVars, histVars, now, devVars, schedVars>>

\* mutant of SubmitSubscribe: submit() leaves the subscription to the feed task
SubmitSubscribe_Deferred ==
    /\ cpc = "started"
    /\ observer.start_time > 0
    /\ cpc' = "submit_send"
    /\ UNCHANGED <<observer, connVars, in_shutdown, subVars, waitVars, fpc, rxVars,
                   histVars, now, devVars, schedVars>>

\* submit(), step 1: _start_feeding() subscribes secure_data_received
SubmitSubscribe ==
    /\ cpc = "started"
    /\ observer.start_time > 0
    /\ subscribers' = subscribers \cup {Receiver}
    /\ cpc' = "submit_send"
    /\ UNCHANGED <<observer, sentLines, in_shutdown, subVars, waitVars, fpc, rxVars,
                   histVars, now, devVars, schedVars>>

\* mutant of SubmitSendline: the is_command() test is missing
SubmitSendline_Always ==
    /\ cpc = "submit_send"
    /\ sentLines' = sentLines + 1
    /\ cpc' = "submit_exec"
    /\ UNCHANGED <<observer, subscribers, in_shutdown, subVars, waitVars, fpc, rxVars,
                   histVars, now, devVars, schedVars>>

\* submit(), step 2: _start_feeding() sends command_string of a command
SubmitSendline ==
    /\ cpc = "submit_send"
    /\ sentLines' = IF is_command(observer) THEN sentLines + 1 ELSE sentLines
    /\ cpc' = "submit_exec"
    /\ UNCHANGED <<observer, subscribers, in_shutdown, subVars, waitVars, fpc, rxVars,
                   histVars, now, devVars, schedVars>>

\* submit(), step 3: executor.submit(self.feed, ..., subscribed_data_receiver, ...).
\* The runner's own executor was shut down by shutdown(): it accepts no new work
\* and executor.submit() raises out of submit().
SubmitExecutor ==
    /\ cpc = "submit_exec"
    /\ IF in_shutdown /\ IOwnExecutor
       THEN /\ cpc' = "submit_raised"
            /\ UNCHANGED <<fstate, feedArg, fpc>>
       ELSE /\ fstate' = "PENDING"
            /\ feedArg' = TRUE
            /\ fpc' = "queued"
            /\ cpc' = "idle"
    /\ UNCHANGED <<observer, connVars, in_shutdown, stop_feeding, feed_done, observer_lock,
                   waitVars, rxVars, histVars, now, devVars, schedVars>>

\* mutant of WaitForEnter: a done observer's future is left alone
WaitForEnter_NoCancel(T) ==
    /\ cpc = "idle"
    /\ IF done(observer)
       THEN /\ lastRet' = "already_done"
            /\ UNCHANGED <<fstate, stop_feeding, cpc, wait_until, max_timeout,
                           observer_timeout, remain_time>>
       ELSE /\ max_timeout' = T
            /\ IF T > 0
               THEN /\ wait_until' = now + his_remaining_time(observer, T, now)
                    /\ observer_timeout' = 0
                    /\ cpc' = IF his_remaining_time(observer, T, now) > 0
                              THEN "w_block" ELSE "w_expired"
               ELSE /\ observer_timeout' = observer.timeout
                    /\ wait_until' = 0
                    /\ cpc' = "w_remain"
            /\ remain_time' = 0
            /\ lastRet' = "none"
            /\ UNCHANGED <<fstate, stop_feeding>>
    /\ UNCHANGED <<observer, connVars, in_shutdown, feed_done, observer_lock, feedArg,
                   fpc, rxVars, histVars, now, devVars, schedVars>>

\* wait_for(timeout=T), lines 289-317; T = 0 stands for timeout=None.
\* Observer already done: cancel the future without waiting and return.
\* Otherwise, with an explicit timeout, compute remain_time from it and start the
\* blocking wait; without one, read the observer's timeout for the polling loop.
WaitForEnter(T) ==
    /\ cpc = "idle"
    /\ IF done(observer)
       THEN /\ fstate' = IF future_done(fstate) THEN fstate ELSE cancel_no_wait_state(fstate)
            /\ stop_feeding' = (stop_feeding \/
                                  (~future_done(fstate) /\ cancel_no_wait_stops(fstate)))
            /\ lastRet' = "already_done"
            /\ UNCHANGED <<cpc, wait_until, max_timeout, observer_timeout, remain_time>>
       ELSE /\ max_timeout' = T
            /\ IF T > 0
               THEN /\ wait_until' = now + his_remaining_time(observer, T, now)
                    /\ observer_timeout' = 0
                    /\ cpc' = IF his_remaining_time(observer, T, now) > 0
                              THEN "w_block" ELSE "w_expired"
               ELSE /\ observer_timeout' = observer.timeout
                    /\ wait_until' = 0
                    /\ cpc' = "w_remain"
            /\ remain_time' = 0
            /\ lastRet' = "none"
            /\ UNCHANGED <<fstate, stop_feeding>>
    /\ UNCHANGED <<observer, connVars, in_shutdown, feed_done, observer_lock, feedArg,
                   fpc, rxVars, histVars, now, devVars, schedVars>>

\* wait_for, lines 318-320: wait([future], timeout=remain_time) saw the future done
WaitBlockDone ==
    /\ cpc = "w_block"
    /\ future_done(fstate)
    /\ cpc' = "idle"
    /\ lastRet' = "future_done"
    /\ wait_until' = 0
    /\ max_timeout' = 0
    /\ UNCHANGED <<observer, connVars, in_shutdown, subVars, observer_timeout, remain_time,
                   fpc, rxVars, histVars, now, devVars, schedVars>>

\* wait_for, line 318: wait([future], timeout=remain_time) ran out of time
WaitBlockExpire ==
    /\ cpc = "w_block"
    /\ ~future_done(fstate)
    /\ now >= wait_until
    /\ cpc' = "w_expired"
    /\ UNCHANGED <<observer, connVars, in_shutdown, subVars, waitVars, fpc, rxVars,
                   histVars, now, devVars, schedVars>>

\* wait_for, lines 311 and 328-329: remain_time is computed from the timeout read
\* before and from the clock read now
WaitPollRemain ==
    /\ cpc = "w_remain"
    /\ remain_time' = his_remaining_time(observer, observer_timeout, now)
    /\ observer_timeout' = 0
    /\ cpc' = "w_poll"
    /\ UNCHANGED <<observer, connVars, in_shutdown, subVars, wait_until, max_timeout,
                   lastRet, fpc, rxVars, histVars, now, devVars, schedVars>>

\* wait_for, lines 323-326: a 0.1 s tick of the polling loop saw the future done
WaitPollDone ==
    /\ cpc = "w_poll"
    /\ remain_time > 0
    /\ future_done(fstate)
    /\ cpc' = "idle"
    /\ lastRet' = "future_done"
    /\ remain_time' = 0
    /\ UNCHANGED <<observer, connVars, in_shutdown, subVars, wait_until, max_timeout,
                   observer_timeout, fpc, rxVars, histVars, now, devVars, schedVars>>

\* wait_for, lines 323-327: a tick passed, the future is not done; the observer's
\* timeout is read again
WaitPollTick ==
    /\ cpc = "w_poll"
    /\ remain_time > 0
    /\ ~future_done(fstate)
    /\ observer_timeout' = observer.timeout
    /\ remain_time' = 0
    /\ cpc' = "w_remain"
    /\ UNCHANGED <<observer, connVars, in_shutdown, subVars, wait_until, max_timeout,
                   lastRet, fpc, rxVars, histVars, now, devVars, schedVars>>

\* wait_for, line 323: while remain_time > 0.0 fails
WaitPollExpire ==
    /\ cpc = "w_poll"
    /\ remain_time = 0
    /\ cpc' = "w_expired"
    /\ UNCHANGED <<observer, connVars, in_shutdown, subVars, waitVars, fpc, rxVars,
                   histVars, now, devVars, schedVars>>

\* wait_for, lines 332-334: connection_observer_future.cancel(no_wait=True)
WaitCancelFuture ==
    /\ cpc = "w_expired"
    /\ fstate' = cancel_no_wait_state(fstate)
    /\ stop_feeding' = (stop_feeding \/ cancel_no_wait_stops(fstate))
    /\ cpc' = "w_lock"
    /\ UNCHANGED <<observer, connVars, in_shutdown, feed_done, observer_lock, feedArg,
                   waitVars, fpc, rxVars, histVars, now, devVars, schedVars>>

\* wait_for, line 335: with connection_observer_future.observer_lock
WaitTimeoutLock ==
    /\ cpc = "w_lock"
    /\ observer_lock = "free"
    /\ observer_lock' = "wait_for"
    /\ cpc' = "w_crit"
    /\ UNCHANGED <<observer, connVars, in_shutdown, stop_feeding, feed_done, fstate, feedArg,
                   waitVars, fpc, rxVars, histVars, now, devVars, schedVars>>

\* wait_for, lines 336-340: time_out_observer() under the lock, release, return
WaitTimeout ==
    /\ cpc = "w_crit"
    /\ observer' = time_out_observer(observer)
    /\ on_timeout_calls' = IF fires_on_timeout(observer)
                           THEN Bump(on_timeout_calls) ELSE on_timeout_calls
    /\ observer_lock' = "free"
    /\ cpc' = "idle"
    /\ lastRet' = "expired"
    /\ wait_until' = 0
    /\ max_timeout' = 0
    /\ UNCHANGED <<connVars, in_shutdown, stop_feeding, feed_done, fstate, feedArg,
                   observer_timeout, remain_time, deadline_reached, fpc, rxVars, now,
                   devVars, schedVars>>

\* CancellableFuture.cancel(no_wait=True) called by the holder of the future
FutureCancelNoWait ==
    /\ cpc = "idle"
    /\ ~stop_feeding
    /\ fstate \in {"PENDING", "RUNNING"}
    /\ fstate' = cancel_no_wait_state(fstate)
    /\ stop_feeding' = cancel_no_wait_stops(fstate)
    /\ UNCHANGED <<observer, connVars, in_shutdown, feed_done, observer_lock, feedArg,
                   cpc, waitVars, fpc, rxVars, histVars, now, devVars, schedVars>>

\* CancellableFuture.cancel(no_wait=False), lines 167-173 and 184-191, called by the
\* holder of the future. Running: _stop() sets the stop flag and starts waiting for
\* the done flag. Not running: concurrent.futures.Future.cancel() on the future.
FutureCancel ==
    /\ cpc = "idle"
    /\ fstate \in {"PENDING", "RUNNING"}
    /\ IF fstate = "RUNNING"
       THEN /\ stop_feeding' = TRUE
            /\ wait_until' = now + StopTimeout
            /\ cpc' = "c_wait"
            /\ UNCHANGED fstate
       ELSE /\ fstate' = "CANCELLED"
            /\ UNCHANGED <<stop_feeding, wait_until, cpc>>
    /\ UNCHANGED <<observer, connVars, in_shutdown, feed_done, observer_lock, feedArg,
                   max_timeout, observer_timeout, remain_time, lastRet, fpc, rxVars,
                   histVars, now, devVars, schedVars>>

\* mutant of FutureCancelStopped: cancel() returns without the done flag
FutureCancelStopped_NoWait ==
    /\ cpc = "c_wait"
    /\ fstate' = "CANCELLED"
    /\ wait_until' = 0
    /\ cpc' = "idle"
    /\ UNCHANGED <<observer, connVars, in_shutdown, stop_feeding, feed_done, observer_lock,
                   feedArg, max_timeout, observer_timeout, remain_time, lastRet, fpc,
                   rxVars, histVars, now, devVars, schedVars>>

\* cancel(no_wait=False), lines 190 and 174-182: _is_done.wait() saw the done flag;
\* the future is forced back to PENDING and cancelled, cancel() returns
FutureCancelStopped ==
    /\ cpc = "c_wait"
    /\ feed_done
    /\ fstate' = "CANCELLED"
    /\ wait_until' = 0
    /\ cpc' = "idle"
    /\ UNCHANGED <<observer, connVars, in_shutdown, stop_feeding, feed_done, observer_lock,
                   feedArg, max_timeout, observer_timeout, remain_time, lastRet, fpc,
                   rxVars, histVars, now, devVars, schedVars>>

\* cancel(no_wait=False), lines 190-193: _is_done.wait(timeout=stop_timeout) ran out
\* of time; MolerException leaves cancel()
FutureCancelFailed ==
    /\ cpc = "c_wait"
    /\ ~feed_done
    /\ now >= wait_until
    /\ wait_until' = 0
    /\ cpc' = "idle"
    /\ UNCHANGED <<observer, connVars, in_shutdown, subVars, max_timeout, observer_timeout,
                   remain_time, lastRet, fpc, rxVars, histVars, now, devVars, schedVars>>

\* ---------------------------------------------------------------- pool worker
\* feed(), lines 395-404: the worker thread picks the task up. A feed() handed no
\* receiver establishes the data path itself with _start_feeding().
FeedStart ==
    /\ fpc = "queued"
    /\ fstate = "PENDING"
    /\ fstate' = "RUNNING"
    /\ subscribers' = IF feedArg THEN subscribers ELSE subscribers \cup {Receiver}
    /\ sentLines' = IF ~feedArg /\ is_command(observer) THEN sentLines + 1 ELSE sentLines
    /\ fpc' = "f_loop"
    /\ UNCHANGED <<observer, in_shutdown, stop_feeding, feed_done, observer_lock, feedArg,
                   cpc, waitVars, rxVars, histVars, now, devVars, schedVars>>

\* mutant of feed_loop_branch: the shutdown test comes before the timeout test
feed_loop_branch_shutdown_first(o, stop, shutdown, t) ==
    IF stop THEN "f_unsub"
    ELSE IF done(o) THEN "f_unsub"
    ELSE IF shutdown THEN "f_cancel"
    ELSE IF t - o.start_time >= o.timeout THEN "f_lock"
    ELSE "f_loop"

\* _feed_loop(), lines 420-430 and 437: where one round of the loop leads
feed_loop_branch(o, stop, shutdown, t) ==
    IF stop THEN "f_unsub"
    ELSE IF done(o) THEN "f_unsub"
    ELSE IF t - o.start_time >= o.timeout THEN "f_lock"
    ELSE IF shutdown THEN "f_cancel"
    ELSE "f_loop"

\* _feed_loop(): one round of checks (a round that finds nothing sleeps and repeats)
FeedLoopCheck ==
    /\ fpc = "f_loop"
    /\ feed_loop_branch(observer, stop_feeding, in_shutdown, now) # "f_loop"
    /\ fpc' = feed_loop_branch(observer, stop_feeding, in_shutdown, now)
    /\ UNCHANGED <<observer, connVars, in_shutdown, subVars, cpc, waitVars, rxVars,
                   histVars, now, devVars, schedVars>>

\* mutant of FeedTimeoutLock: the feed loop does not wait for the lock
FeedTimeoutLock_NoWait ==
    /\ fpc = "f_lock"
    /\ observer_lock' = "feed"
    /\ fpc' = "f_crit"
    /\ UNCHANGED <<observer, connVars, in_shutdown, stop_feeding, feed_done, fstate, feedArg,
                   cpc, waitVars, rxVars, histVars, now, devVars, schedVars>>

\* _feed_loop(), line 431: with observer_lock
FeedTimeoutLock ==
    /\ fpc = "f_lock"
    /\ observer_lock = "free"
    /\ observer_lock' = "feed"
    /\ fpc' = "f_crit"
    /\ UNCHANGED <<observer, connVars, in_shutdown, stop_feeding, feed_done, fstate, feedArg,
                   cpc, waitVars, rxVars, histVars, now, devVars, schedVars>>

\* _feed_loop(), lines 432-436: time_out_observer() under the lock, release, break
FeedTimeout ==
    /\ fpc = "f_crit"
    /\ observer' = time_out_observer(observer)
    /\ on_timeout_calls' = IF fires_on_timeout(observer)
                           THEN Bump(on_timeout_calls) ELSE on_timeout_calls
    /\ observer_lock' = "free"
    /\ fpc' = "f_unsub"
    /\ UNCHANGED <<connVars, in_shutdown, stop_feeding, feed_done, fstate, feedArg,
                   cpc, waitVars, rxVars, deadline_reached, now, devVars, schedVars>>

\* _feed_loop(), lines 437-440: connection_observer.cancel() on shutdown, then sleep
FeedShutdownCancel ==
    /\ fpc = "f_cancel"
    /\ observer' = cancel(observer)
    /\ fpc' = "f_loop"
    /\ UNCHANGED <<connVars, in_shutdown, subVars, cpc, waitVars, rxVars, histVars, now, devVars, schedVars>>

\* mutant of FeedUnsubscribe: feed() goes on to feed_done.set() without unsubscribing
FeedUnsubscribe_Skipped ==
    /\ fpc = "f_unsub"
    /\ fpc' = "f_setdone"
    /\ UNCHANGED <<observer, connVars, in_shutdown, subVars, cpc, waitVars, rxVars,
                   histVars, now, devVars, schedVars>>

\* feed(), line 409: moler_conn.unsubscribe(subscribed_data_receiver)
FeedUnsubscribe ==
    /\ fpc = "f_unsub"
    /\ subscribers' = subscribers \ {Receiver}
    /\ fpc' = "f_setdone"
    /\ UNCHANGED <<observer, sentLines, in_shutdown, subVars, cpc, waitVars, rxVars,
                   histVars, now, devVars, schedVars>>

\* feed(), line 410: feed_done.set()
FeedSetDone ==
    /\ fpc = "f_setdone"
    /\ feed_done' = TRUE
    /\ fpc' = "f_return"
    /\ UNCHANGED <<observer, connVars, in_shutdown, stop_feeding, observer_lock, fstate,
                   feedArg, cpc, waitVars, rxVars, histVars, now, devVars, schedVars>>

\* feed(), line 415: return None; the executor marks the future finished. On a
\* future that cancel(no_wait=False) has cancelled meanwhile, set_result() either
\* raises InvalidStateError or overwrites the state, depending on the version of
\* concurrent.futures.
FeedReturn ==
    /\ fpc = "f_return"
    /\ fstate' \in IF fstate = "CANCELLED" THEN {"CANCELLED", "FINISHED"} ELSE {"FINISHED"}
    /\ fpc' = "f_finished"
    /\ UNCHANGED <<observer, connVars, in_shutdown, stop_feeding, feed_done, observer_lock,
                   feedArg, cpc, waitVars, rxVars, histVars, now, devVars, schedVars>>

\* ---------------------------------------------------------------- delivery thread
\* submit() has returned the future to its caller
SubmitReturned == cpc \notin {"new", "started", "submit_send", "submit_exec", "submit_raised"}

\* moler_conn.data_received(chunk): the chunk goes to a snapshot of the subscribers
RxSnapshot ==
    /\ rpc = "idle"
    /\ cpc # "new"
    /\ chunkNo < MaxChunks
    /\ chunkNo' = chunkNo + 1
    /\ IF Receiver \in subscribers
       THEN rpc' = "r_check" /\ lost' = lost
       ELSE /\ rpc' = "idle"
            /\ lost' = IF SubmitReturned /\ ~done(observer) /\ ~in_shutdown
                       THEN lost \cup {chunkNo + 1} ELSE lost
    /\ UNCHANGED <<observer, connVars, in_shutdown, subVars, cpc, waitVars, fpc, received,
                   histVars, now, devVars, schedVars>>

\* secure_data_received(), lines 365-366: data for a done observer, or during
\* shutdown, is dropped
RxCheck ==
    /\ rpc = "r_check"
    /\ rpc' = IF done(observer) \/ in_shutdown THEN "idle" ELSE "r_lock"
    /\ UNCHANGED <<observer, connVars, in_shutdown, subVars, cpc, waitVars, fpc, chunkNo,
                   received, lost, histVars, now, devVars, schedVars>>

\* secure_data_received(), line 367: with observer_lock
RxLock ==
    /\ rpc = "r_lock"
    /\ observer_lock = "free"
    /\ observer_lock' = "receiver"
    /\ rpc' = "r_crit"
    /\ UNCHANGED <<observer, connVars, in_shutdown, stop_feeding, feed_done, fstate, feedArg,
                   cpc, waitVars, fpc, chunkNo, received, lost, histVars, now, devVars, schedVars>>

\* secure_data_received(), line 368: connection_observer.data_received(data) under
\* the lock; an exception leaves the with-block and is caught at line 370
RxDataReceived(outcome) ==
    /\ rpc = "r_crit"
    /\ done(observer) => outcome = "more"
    /\ observer' = data_received(observer, outcome)
    /\ received' = Append(received, chunkNo)
    /\ observer_lock' = "free"
    /\ rpc' = IF outcome = "raise" THEN "r_exc_lock" ELSE "idle"
    /\ UNCHANGED <<connVars, in_shutdown, stop_feeding, feed_done, fstate, feedArg,
                   cpc, waitVars, fpc, chunkNo, lost, histVars, now, devVars, schedVars>>

\* secure_data_received(), line 373: with observer_lock (exception handler)
RxExcLock ==
    /\ rpc = "r_exc_lock"
    /\ observer_lock = "free"
    /\ observer_lock' = "receiver"
    /\ rpc' = "r_exc_crit"
    /\ UNCHANGED <<observer, connVars, in_shutdown, stop_feeding, feed_done, fstate, feedArg,
                   cpc, waitVars, fpc, chunkNo, received, lost, histVars, now, devVars, schedVars>>

\* secure_data_received(), line 374: connection_observer.set_exception(exc)
RxSetException ==
    /\ rpc = "r_exc_crit"
    /\ observer' = set_exception(observer, "ParseError")
    /\ observer_lock' = "free"
    /\ rpc' = "idle"
    /\ UNCHANGED <<connVars, in_shutdown, stop_feeding, feed_done, fstate, feedArg,
                   cpc, waitVars, fpc, chunkNo, received, lost, histVars, now, devVars, schedVars>>

\* ---------------------------------------------------------------- environment
\* whether the deadline start_time + timeout of a started, not done observer has
\* been reached at clock value t
expired(o, t) == o.status = "running" /\ t - o.start_time >= o.timeout

\* time passes
Tick ==
    /\ cpc # "new"
    /\ now < MaxTime
    /\ now' = now + 1
    /\ deadline_reached' = IF deadline_reached = "no" /\ expired(observer, now + 1)
                           THEN "by_clock" ELSE deadline_reached
    /\ UNCHANGED <<observer, connVars, in_shutdown, subVars, cpc, waitVars, fpc, rxVars,
                   on_timeout_calls, devVars, schedVars>>

\* runner.shutdown()
Shutdown ==
    /\ ~in_shutdown
    /\ in_shutdown' = TRUE
    /\ UNCHANGED <<observer, connVars, subVars, cpc, waitVars, fpc, rxVars, histVars, now,
                   devVars, schedVars>>

\* connection_observer.timeout = t, at any moment before the observer is terminal
SetTimeout(t) ==
    /\ ~done(observer)
    /\ t # observer.timeout
    /\ observer' = [observer EXCEPT !.timeout = t]
    /\ deadline_reached' = IF deadline_reached = "no" /\ expired(observer', now)
                           THEN "by_assignment" ELSE deadline_reached
    /\ UNCHANGED <<connVars, in_shutdown, subVars, cpc, waitVars, fpc, rxVars,
                   on_timeout_calls, now, devVars, schedVars>>

\* connection_observer.cancel() called by the observer's user
ObserverCancel ==
    /\ observer.status = "running"
    /\ observer' = cancel(observer)
    /\ UNCHANGED <<connVars, in_shutdown, subVars, cpc, waitVars, fpc, rxVars, histVars, now,
                   devVars, schedVars>>

\* ---------------------------------------------------------------- specification
\* the steps of the runner, the connection and the clock
RunnerNext ==
    \/ Start
    \/ SubmitSubscribe
    \/ SubmitSendline
    \/ SubmitExecutor
    \/ \E T \in 0..MaxWait : WaitForEnter(T)
    \/ WaitBlockDone
    \/ WaitBlockExpire
    \/ WaitPollRemain
    \/ WaitPollDone
    \/ WaitPollTick
    \/ WaitPollExpire
    \/ WaitCancelFuture
    \/ WaitTimeoutLock
    \/ WaitTimeout
    \/ FutureCancelNoWait
    \/ FutureCancel
    \/ FutureCancelStopped
    \/ FutureCancelFailed
    \/ FeedStart
    \/ FeedLoopCheck
    \/ FeedTimeoutLock
    \/ FeedTimeout
    \/ FeedShutdownCancel
    \/ FeedUnsubscribe
    \/ FeedSetDone
    \/ FeedReturn
    \/ RxSnapshot
    \/ RxCheck
    \/ RxLock
    \/ \E outcome \in ParserOutcomes : RxDataReceived(outcome)
    \/ RxExcLock
    \/ RxSetException
    \/ Tick
    \/ Shutdown
    \/ \E t \in 1..MaxTimeout : SetTimeout(t)

Next ==
    \/ RunnerNext
    \/ ObserverCancel

Spec == Init /\ [][Next]_vars

\* the same system while the observer's user never calls cancel()
SpecNoUserCancel == Init /\ [][RunnerNext]_vars

\* the steps of the pool worker running feed()
Worker ==
    \/ FeedStart
    \/ FeedLoopCheck
    \/ FeedTimeoutLock
    \/ FeedTimeout
    \/ FeedShutdownCancel
    \/ FeedUnsubscribe
    \/ FeedSetDone
    \/ FeedReturn

\* the runner with a pool worker that keeps being scheduled: a worker step that
\* stays possible is taken, and the observer lock is acquired if it is free again
\* and again
FairSpec == Init /\ [][RunnerNext]_vars /\ WF_vars(Worker) /\ SF_vars(FeedTimeoutLock)

\* the steps a thread takes while it holds the observer lock
LockHolder ==
    \/ WaitTimeout
    \/ \E outcome \in ParserOutcomes : RxDataReceived(outcome)
    \/ RxSetException

\* the steps of the caller that finish a submit() it has begun
Submitter ==
    \/ SubmitSendline
    \/ SubmitExecutor

\* the runner with threads that keep running: the pool worker as in FairSpec, a
\* thread inside a with-block of the observer lock leaves it, and a submit() that
\* has subscribed goes on to its end
FairThreadsSpec ==
    /\ Init /\ [][RunnerNext]_vars
    /\ WF_vars(Worker) /\ SF_vars(FeedTimeoutLock)
    /\ WF_vars(LockHolder) /\ WF_vars(Submitter)

\* ---------------------------------------------------------------- device
runnerVars == <<observer, subscribers, sentLines, in_shutdown, stop_feeding, feed_done,
                observer_lock, fstate, feedArg, cpc, wait_until, max_timeout,
                observer_timeout, remain_time, lastRet, fpc, rpc, chunkNo, received, lost,
                on_timeout_calls, deadline_reached, now>>

\* mutant of GotoState: the loop is entered whatever the current state is
GotoState_NoShortcut(dest) ==
    /\ dpc = "idle"
    /\ goto_from' = current_state
    /\ dest_state' = dest
    /\ change_state_method' = NoMethod
    /\ actions_run' = <<>>
    /\ dpc' = "g_loop"
    /\ goto_outcome' = "none"
    /\ io_call' = "none"
    /\ UNCHANGED <<runnerVars, schedVars, gateVars, transitions, state_hops,
                   current_state, last_set_by>>

\* goto_state(dest_state), lines 143-147: return at once when the device is in
\* dest_state already, otherwise enter the loop with no change_state_method
GotoState(dest) ==
    /\ dpc = "idle"
    /\ goto_from' = current_state
    /\ dest_state' = dest
    /\ change_state_method' = NoMethod
    /\ actions_run' = <<>>
    /\ IF current_state = dest
       THEN dpc' = "idle" /\ goto_outcome' = "returned"
       ELSE dpc' = "g_loop" /\ goto_outcome' = "none"
    /\ io_call' = "none"
    /\ UNCHANGED <<runnerVars, schedVars, gateVars, transitions, state_hops,
                   current_state, last_set_by>>

\* goto_state(), lines 148-173: one round of the loop. The next state is the hop
\* toward dest_state or dest_state itself; its trigger is looked up and called:
\* the state machine raises when the current state has no transition for the
\* trigger, otherwise it runs the actions of the transition and moves; an
\* exception of an action leaves goto_state() as it is, before the state changes.
\* Without a change_state_method DeviceFailure is raised.
GotoIteration ==
    /\ dpc = "g_loop"
    /\ LET state == next_state(current_state, dest_state)
           method == found_method(state, change_state_method)
       IN  /\ change_state_method' = method
           /\ IF method = NoMethod
              THEN /\ goto_outcome' = "DeviceFailure"
                   /\ dpc' = "idle"
                   /\ UNCHANGED <<current_state, actions_run, last_set_by, io_call>>
              ELSE IF ~can_trigger(current_state, method)
              THEN /\ goto_outcome' = "MachineError"
                   /\ dpc' = "idle"
                   /\ UNCHANGED <<current_state, actions_run, last_set_by, io_call>>
              ELSE /\ io_call' = io_call_of(transition_action(current_state, method[2]),
                                            io_call)
                   /\ \E result \in ActionResults :
                        IF result = "raise"
                        THEN /\ goto_outcome' = "ActionError"
                             /\ dpc' = "idle"
                             /\ UNCHANGED <<current_state, actions_run, last_set_by>>
                        ELSE /\ actions_run' = Record(actions_run,
                                                      <<current_state, method[2]>>)
                             /\ current_state' = method[2]
                             /\ last_set_by' = "goto"
                             /\ IF method[2] = dest_state
                                THEN dpc' = "idle" /\ goto_outcome' = "returned"
                                ELSE dpc' = "g_loop" /\ goto_outcome' = "none"
    /\ UNCHANGED <<runnerVars, schedVars, gateVars, transitions, state_hops, goto_from,
                   dest_state>>

\* mutant of OnConnectionMade: the notification is ignored
OnConnectionMade_Ignored ==
    /\ dpc = "idle"
    /\ last_set_by' = "made"
    /\ UNCHANGED <<runnerVars, schedVars, gateVars, transitions, state_hops, dpc,
                   goto_from, dest_state, change_state_method, actions_run, goto_outcome,
                   current_state, io_call>>

\* on_connection_made(), lines 175-176, with _set_state(), lines 138-141: the state
\* becomes CONNECTED unless it is CONNECTED already; between two calls of
\* goto_state()
OnConnectionMade ==
    /\ dpc = "idle"
    /\ current_state' = IF current_state # "CONNECTED" THEN "CONNECTED" ELSE current_state
    /\ last_set_by' = "made"
    /\ UNCHANGED <<runnerVars, schedVars, gateVars, transitions, state_hops, dpc,
                   goto_from, dest_state, change_state_method, actions_run, goto_outcome,
                   io_call>>

\* on_connection_lost(), lines 178-179, with _set_state(), lines 138-141: the state
\* becomes NOT_CONNECTED unless it is NOT_CONNECTED already; between two calls of
\* goto_state(). Nothing else is done: the observers of the connection are left
\* as they are
OnConnectionLost ==
    /\ dpc = "idle"
    /\ current_state' = IF current_state # "NOT_CONNECTED" THEN "NOT_CONNECTED"
                        ELSE current_state
    /\ last_set_by' = "lost"
    /\ UNCHANGED <<runnerVars, schedVars, gateVars, transitions, state_hops, dpc,
                   goto_from, dest_state, change_state_method, actions_run, goto_outcome,
                   io_call>>

\* the device variables that get_cmd(), get_event() and an observer's start() leave alone
gotoVars == <<transitions, state_hops, current_state, dpc, goto_from, dest_state,
              change_state_method, actions_run, goto_outcome, last_set_by, io_call>>

\* get_cmd() / get_event(), lines 278-289, through get_observer(), lines 255-276, and
\* _get_observer_in_state(), lines 215-241: a name available in the current state
\* gives an observer on the device's moler connection, created in the current
\* state (the wrapper keeps it as creation_state when check_state is set); any
\* other name raises KeyError
GetObserver(type, name, check_state) ==
    /\ dpc = "idle"
    /\ get_request' = <<type, name, check_state>>
    /\ IF name \in available_observer_names(type, current_state)
       THEN /\ dev_observer' = [type |-> type, name |-> name,
                                connection |-> "moler_connection",
                                check_state |-> check_state,
                                creation_state |-> current_state]
            /\ get_outcome' = "observer"
       ELSE /\ dev_observer' = NoObserver
            /\ get_outcome' = "KeyError"
    /\ start_outcome' = "none"
    /\ UNCHANGED <<runnerVars, schedVars, gotoVars, cmdnames_available_in_state,
                   eventnames_available_in_state>>

\* dev_observer.start(): its _validate_start runs before anything else
StartObserver ==
    /\ dpc = "idle"
    /\ dev_observer # NoObserver
    /\ start_outcome = "none"
    /\ start_outcome' = validate_start(dev_observer, current_state)
    /\ UNCHANGED <<runnerVars, schedVars, gotoVars, cmdnames_available_in_state,
                   eventnames_available_in_state, get_request, dev_observer,
                   get_outcome>>

DeviceNext ==
    \/ \E dest \in DevStates : GotoState(dest)
    \/ GotoIteration
    \/ OnConnectionMade
    \/ OnConnectionLost

DeviceSpec == DeviceInit /\ [][DeviceNext]_vars

\* the device with a calling thread that keeps running: a round of the loop of
\* goto_state() that is possible is taken
DeviceFairSpec == DeviceHopsInit /\ [][DeviceNext]_vars /\ WF_vars(GotoIteration)

\* the device handing out observers while the connection comes and goes
GateNext ==
    \/ \E type \in ObserverTypes, name \in ObserverNames, check_state \in BOOLEAN :
          GetObserver(type, name, check_state)
    \/ StartObserver
    \/ OnConnectionMade
    \/ OnConnectionLost

GateSpec == GateInit /\ [][GateNext]_vars

\* a command submitted to the runner on the device's connection while the
\* connection comes and goes
LinkNext ==
    \/ Start
    \/ SubmitSubscribe
    \/ SubmitSendline
    \/ SubmitExecutor
    \/ Worker
    \/ RxSnapshot
    \/ RxCheck
    \/ RxLock
    \/ \E outcome \in ParserOutcomes : RxDataReceived(outcome)
    \/ RxExcLock
    \/ RxSetException
    \/ Tick
    \/ Shutdown
    \/ OnConnectionMade
    \/ OnConnectionLost

\* a command on the connection of a TextualDevice
LinkInit == Init /\ observer.kind = "command"

LinkSpec == LinkInit /\ [][LinkNext]_vars

\* ---------------------------------------------------------------- scheduler
\* what the scheduler part leaves alone
notSchedVars == <<runnerVars, devVars>>

\* mutant of Construct: the instance is installed over the one that exists
Construct_Overwrite(t, arg, pc_after) ==
    /\ ctor_calls' = ctor_calls + 1
    /\ IF swap_type(arg) \notin SchedulerTypes
       THEN /\ sched_outcome' = [sched_outcome EXCEPT ![t] = "WrongUsage"]
            /\ spc' = [spc EXCEPT ![t] = "idle"]
            /\ UNCHANGED <<sched_object, sched_type, sched_scheduler, sched_alive, aps_made>>
       ELSE /\ sched_object' = ctor_calls + 1
            /\ sched_type' = swap_type(arg)
            /\ aps_made' = aps_made + 1
            /\ sched_scheduler' = aps_made + 1
            /\ sched_alive' = sched_alive \cup {aps_made + 1}
            /\ sched_outcome' = [sched_outcome EXCEPT ![t] = "installed"]
            /\ spc' = [spc EXCEPT ![t] = pc_after]

\* Scheduler.__init__(scheduler_type), lines 63-74, all of it under Scheduler._lock:
\* WrongUsage when an instance is installed; otherwise _swap_scheduler() creates
\* and starts the scheduler of the kind, or raises WrongUsage for an unknown kind,
\* and the new object is installed as Scheduler._object
Construct(t, arg, pc_after) ==
    /\ ctor_calls' = ctor_calls + 1
    /\ IF sched_object # 0 \/ swap_type(arg) \notin SchedulerTypes
       THEN /\ sched_outcome' = [sched_outcome EXCEPT ![t] = "WrongUsage"]
            /\ spc' = [spc EXCEPT ![t] = "idle"]
            /\ UNCHANGED <<sched_object, sched_type, sched_scheduler, sched_alive, aps_made>>
       ELSE /\ sched_object' = ctor_calls + 1
            /\ sched_type' = swap_type(arg)
            /\ aps_made' = aps_made + 1
            /\ sched_scheduler' = aps_made + 1
            /\ sched_alive' = sched_alive \cup {aps_made + 1}
            /\ sched_outcome' = [sched_outcome EXCEPT ![t] = "installed"]
            /\ spc' = [spc EXCEPT ![t] = pc_after]

\* Scheduler(scheduler_type) called by the user
SchedulerCtor(t, arg) ==
    /\ spc[t] = "idle"
    /\ ctor_calls < MaxConstructs
    /\ Construct(t, arg, "idle")
    /\ UNCHANGED <<notSchedVars, job, cb_calls, cb_last>>

\* get_job() -> _get_instance(), line 56: the test of Scheduler._object, outside
\* the lock
GetInstanceCheck(t) ==
    /\ spc[t] = "idle"
    /\ job[t] = NoJob
    /\ spc' = [spc EXCEPT ![t] = IF sched_object = 0 THEN "construct" ELSE "have_instance"]
    /\ UNCHANGED <<notSchedVars, sched_object, sched_type, sched_scheduler, sched_alive,
                   ctor_calls, aps_made, sched_outcome, job, cb_calls, cb_last>>

\* get_job() -> _get_instance(), line 57: Scheduler(); its WrongUsage leaves get_job()
GetInstanceConstruct(t) ==
    /\ spc[t] = "construct"
    /\ Construct(t, "None", "have_instance")
    /\ UNCHANGED <<notSchedVars, job, cb_calls, cb_last>>

\* get_job(), lines 33-34: the DecoratedCallable is built and add_job() adds the
\* interval job to the started scheduler
AddJob(t, cancel_on_exception) ==
    /\ spc[t] = "have_instance"
    /\ job' = [job EXCEPT ![t] = [state |-> "active",
                                  cancel_on_exception |-> cancel_on_exception,
                                  scheduler |-> sched_scheduler,
                                  last_call |-> "none",
                                  callable |-> added_callable,
                                  linked |-> FALSE]]
    /\ spc' = [spc EXCEPT ![t] = "added"]
    /\ UNCHANGED <<notSchedVars, sched_object, sched_type, sched_scheduler, sched_alive,
                   ctor_calls, aps_made, sched_outcome, cb_calls, cb_last>>

\* get_job(), lines 35-38: job_internal.pause(), then the Job is built, linked to
\* the DecoratedCallable and returned; pause() raises for a job that was removed
PauseJob(t) ==
    /\ spc[t] = "added"
    /\ IF job[t].state = "removed"
       THEN /\ sched_outcome' = [sched_outcome EXCEPT ![t] = "JobLookupError"]
            /\ spc' = [spc EXCEPT ![t] = "failed"]
            /\ UNCHANGED job
       ELSE /\ job' = [job EXCEPT ![t].state = "paused", ![t].linked = TRUE]
            /\ sched_outcome' = [sched_outcome EXCEPT ![t] = "job"]
            /\ spc' = [spc EXCEPT ![t] = "returned"]
    /\ UNCHANGED <<notSchedVars, sched_object, sched_type, sched_scheduler, sched_alive,
                   ctor_calls, aps_made, cb_calls, cb_last>>

\* Job.start(), lines 133-138: self._job.resume()
JobStart(t) ==
    /\ spc[t] = "returned"
    /\ job[t].last_call # "start"
    /\ job' = [job EXCEPT ![t].last_call = "start",
                          ![t].state = IF @ = "removed" THEN @ ELSE "active"]
    /\ UNCHANGED <<notSchedVars, sched_object, sched_type, sched_scheduler, sched_alive,
                   ctor_calls, aps_made, spc, sched_outcome, cb_calls, cb_last>>

\* Job.cancel(), lines 140-145: self._job.pause()
JobCancel(t) ==
    /\ spc[t] = "returned"
    /\ job[t].last_call # "cancel"
    /\ job' = [job EXCEPT ![t].last_call = "cancel",
                          ![t].state = IF @ = "removed" THEN @ ELSE "paused"]
    /\ UNCHANGED <<notSchedVars, sched_object, sched_type, sched_scheduler, sched_alive,
                   ctor_calls, aps_made, spc, sched_outcome, cb_calls, cb_last>>

\* the interval of a job elapses on a running scheduler: the scheduler invokes the
\* function that was added for the job, which returns or raises; the scheduler
\* itself keeps a job whose function raised
Fire(t, result) ==
    /\ job[t].state = "active"
    /\ job[t].scheduler \in sched_alive
    /\ cb_calls < MaxCalls
    /\ cb_calls' = cb_calls + 1
    /\ cb_last' = <<t, result>>
    /\ job' = [job EXCEPT ![t] = invoked(job[t], result)]
    /\ UNCHANGED <<notSchedVars, sched_object, sched_type, sched_scheduler, sched_alive,
                   ctor_calls, aps_made, spc, sched_outcome>>

\* change_kind(scheduler_type), lines 40-49, on the installed instance:
\* _swap_scheduler() keeps the scheduler of the same kind; for another kind it
\* creates and starts a scheduler, removes all jobs of the old one and shuts it
\* down; an unknown kind raises WrongUsage
ChangeKind(t, arg) ==
    /\ spc[t] = "idle"
    /\ sched_object # 0
    /\ aps_made < MaxSchedulers
    /\ IF swap_type(arg) = sched_type
       THEN /\ sched_outcome' = [sched_outcome EXCEPT ![t] = "kept"]
            /\ UNCHANGED <<sched_type, sched_scheduler, sched_alive, aps_made, job>>
       ELSE IF swap_type(arg) \notin SchedulerTypes
       THEN /\ sched_outcome' = [sched_outcome EXCEPT ![t] = "WrongUsage"]
            /\ UNCHANGED <<sched_type, sched_scheduler, sched_alive, aps_made, job>>
       ELSE /\ aps_made' = aps_made + 1
            /\ sched_scheduler' = aps_made + 1
            /\ sched_alive' = (sched_alive \ {sched_scheduler}) \cup {aps_made + 1}
            /\ sched_type' = swap_type(arg)
            /\ job' = [u \in Threads |->
                          IF job[u].state # "none" /\ job[u].scheduler = sched_scheduler
                          THEN [job[u] EXCEPT !.state = "removed"] ELSE job[u]]
            /\ sched_outcome' = [sched_outcome EXCEPT ![t] = "swapped"]
    /\ UNCHANGED <<notSchedVars, sched_object, ctor_calls, spc, cb_calls, cb_last>>

SchedulerNext ==
    \/ \E t \in Threads, arg \in TypeArgs : SchedulerCtor(t, arg)
    \/ \E t \in Threads : GetInstanceCheck(t)
    \/ \E t \in Threads : GetInstanceConstruct(t)
    \/ \E t \in Threads, cancel_on_exception \in BOOLEAN : AddJob(t, cancel_on_exception)
    \/ \E t \in Threads : PauseJob(t)
    \/ \E t \in Threads : JobStart(t)
    \/ \E t \in Threads : JobCancel(t)
    \/ \E t \in Threads, result \in ActionResults : Fire(t, result)
    \/ \E t \in Threads, arg \in TypeArgs : ChangeKind(t, arg)

\* threads that only call get_job() and use the jobs they got
GetJobNext ==
    \/ \E t \in Threads : GetInstanceCheck(t)
    \/ \E t \in Threads : GetInstanceConstruct(t)
    \/ \E t \in Threads, cancel_on_exception \in BOOLEAN : AddJob(t, cancel_on_exception)
    \/ \E t \in Threads : PauseJob(t)
    \/ \E t \in Threads : JobStart(t)
    \/ \E t \in Threads : JobCancel(t)
    \/ \E t \in Threads, result \in ActionResults : Fire(t, result)

\* the process before anything uses the Scheduler
SchedulerInit == Init /\ observer.kind = "command" /\ observer.timeout = 1

SchedulerSpec == SchedulerInit /\ [][SchedulerNext]_vars

GetJobSpec == SchedulerInit /\ [][GetJobNext]_vars

\* ---------------------------------------------------------------- properties
TimeoutKinds == {"CommandTimeout", "ConnectionObserverTimeout"}

Increasing(seq) == \A i, j \in 1..Len(seq) : i < j => seq[i] < seq[j]

\* C1: over every interleaving of the feed loop and wait_for, the timeout
\* exception is written and on_timeout() invoked at most once; exactly once when
\* the observer is timed out; and an observer that was timed out stays timed out
\* with its timeout exception (on_timeout_calls never decreases, so a later change
\* of a timed-out observer would break the last conjunct).
C1_TimeoutFiresOnce ==
    /\ on_timeout_calls <= 1
    /\ observer.status = "timed_out" =>
           on_timeout_calls = 1 /\ observer.exception = TimeoutException(observer)
    /\ on_timeout_calls = 1 =>
           observer.status = "timed_out" /\ observer.exception \in TimeoutKinds

\* C1 witness: wait_for wrote the timeout while the feed loop had detected the
\* expiry too and is about to take the lock
C1_Witness ==
    /\ observer.status = "timed_out"
    /\ on_timeout_calls = 1
    /\ lastRet = "expired"
    /\ fpc = "f_lock"

\* C2: in every state where feed_done is set the guarded receiver is not
\* subscribed (feed() unsubscribes before it sets feed_done)
C2_DoneFlagImpliesUnsubscribed ==
    /\ feed_done => Receiver \notin subscribers
    /\ fpc = "f_setdone" => Receiver \notin subscribers

\* C2 witness: the feed loop left on the deadline and feed_done is set
C2_Witness ==
    /\ feed_done
    /\ observer.status = "timed_out"
    /\ Receiver \notin subscribers

\* C3: the guarded receiver never invokes observer.data_received() on an
\* observer that is terminal
C3_NoDataAfterTerminal ==
    [][(rpc = "r_crit" /\ rpc' # "r_crit") => ~done(observer)]_vars

\* C4: a result set by data_received() is final: no timeout exception is written
\* over it and on_timeout() is not invoked (result, once set, is never cleared)
C4_ResultSuppressesTimeout ==
    observer.result # "none" =>
        /\ observer.status = "done_ok"
        /\ observer.exception = "none"
        /\ on_timeout_calls = 0

\* C4 witness: wait_for ran its timeout path to the end on an observer whose
\* result had been set first
C4_Witness ==
    /\ observer.status = "done_ok"
    /\ lastRet = "expired"

\* C5: the runner applies no terminal write (timeout exception, captured receiver
\* exception, shutdown cancel) to an observer that is already terminal, and a
\* terminal observer has exactly one of result, exception, cancelled
C5_ExactlyOneOutcome ==
    done(observer) =>
        Cardinality({x \in {"result", "exception", "cancelled"} :
                        \/ x = "result" /\ observer.result # "none"
                        \/ x = "exception" /\ observer.exception # "none"
                        \/ x = "cancelled" /\ cancelled(observer)}) = 1

C5_NoLateTerminalWrite ==
    /\ []C5_ExactlyOneOutcome
    /\ [][/\ (rpc = "r_exc_crit" /\ rpc' = "idle") => ~done(observer)
          /\ (fpc = "f_cancel" /\ fpc' = "f_loop") => ~done(observer)
          /\ (fpc = "f_crit" /\ fpc' # "f_crit" /\ done(observer)) => observer' = observer
          /\ (cpc = "w_crit" /\ cpc' # "w_crit" /\ done(observer)) => observer' = observer
         ]_vars

\* C6: observer.data_received() called by the guarded receiver, the timeout write
\* of the feed loop and the timeout write of wait_for each run while their thread
\* holds the observer lock, hence never two of them at the same time
C6_SerializedByObserverLock ==
    /\ rpc = "r_crit" => observer_lock = "receiver"
    /\ fpc = "f_crit" => observer_lock = "feed"
    /\ cpc = "w_crit" => observer_lock = "wait_for"
    /\ ~(rpc = "r_crit" /\ fpc = "f_crit")
    /\ ~(rpc = "r_crit" /\ cpc = "w_crit")
    /\ ~(fpc = "f_crit" /\ cpc = "w_crit")

\* C6 witness: data_received() runs while both timeout writers wait for the lock
C6_Witness ==
    /\ rpc = "r_crit"
    /\ fpc = "f_lock"
    /\ cpc = "w_lock"

\* C7: when observer.data_received() raised, the guarded receiver stores that
\* exception as the observer's exception and the observer is terminal when the
\* receiver returns to the connection
C7_RaisedExceptionStored ==
    [][(rpc = "r_exc_crit" /\ rpc' = "idle") =>
          (done(observer') /\ observer'.exception = "ParseError")]_vars

\* C8: submit() subscribes the guarded receiver before it sends the command
\* string and sends it before the feed task is handed to the executor; the
\* command string is sent exactly once for a command and never for an event
C8_SubmitOrder ==
    /\ [](/\ sentLines <= 1
          /\ ~is_command(observer) => sentLines = 0
          /\ (is_command(observer) /\ fstate # "none") => sentLines = 1)
    /\ [][/\ sentLines' # sentLines => (Receiver \in subscribers /\ fstate = "none")
          /\ (fstate = "none" /\ fstate' # "none") => Receiver \in subscribers
         ]_vars

\* C8 witness: a command's feed task is queued, its line sent once, its receiver
\* subscribed
C8_Witness ==
    /\ is_command(observer)
    /\ fstate = "PENDING"
    /\ sentLines = 1
    /\ Receiver \in subscribers

C10_WaitForReturnsTerminal ==
    lastRet \in {"already_done", "future_done", "expired"} => done(observer)

Min(a, b) == IF a < b THEN a ELSE b

\* C11: when the wait of wait_for has expired and the future is not done, wait_for
\* sets the stop flag of the future and goes on without waiting; then, holding the
\* observer lock, it writes the timeout exception of the observer's kind into a
\* not-done observer and leaves a done observer as it is
C11_WaitExpiryStopsAndTimesOut ==
    [][/\ (cpc = "w_expired" /\ cpc' # "w_expired" /\ ~future_done(fstate))
            => (stop_feeding' /\ cpc' = "w_lock")
       /\ (cpc = "w_crit" /\ cpc' # "w_crit")
            => /\ observer_lock = "wait_for"
               /\ observer' = IF done(observer) THEN observer
                              ELSE [observer EXCEPT
                                      !.status = "timed_out",
                                      !.exception = IF observer.kind = "command"
                                                    THEN "CommandTimeout"
                                                    ELSE "ConnectionObserverTimeout"]
      ]_vars

\* C12: wait_for with an explicit timeout T on a not-done observer blocks for
\* min(T, remaining observer deadline) at most, the remaining observer deadline
\* being start_time + observer.timeout - now (0 when it has passed)
C12_BlocksMinOfTimeoutAndDeadline ==
    [][(cpc = "idle" /\ cpc' \in {"w_block", "w_expired"})
          => LET blocks == IF cpc' = "w_block" THEN wait_until' - now ELSE 0
                 deadline == observer.start_time + observer.timeout - now
             IN  blocks = Min(max_timeout', IF deadline < 0 THEN 0 ELSE deadline)
      ]_vars

\* C13: wait_for entered with an observer that is already done returns at once and
\* writes nothing into the observer (no timeout exception, no on_timeout); a future
\* that is not done gets a no-wait cancel: the stop flag if it runs, a cancelled
\* state if it is queued; a done future is left as it is
C13_DoneObserverOnlyCancelsFuture ==
    [][(cpc = "idle" /\ lastRet # "already_done" /\ lastRet' = "already_done")
          => /\ done(observer)
             /\ observer' = observer
             /\ on_timeout_calls' = on_timeout_calls
             /\ cpc' = "idle"
             /\ fstate = "RUNNING" => (stop_feeding' /\ fstate' = fstate)
             /\ fstate = "PENDING" => fstate' = "CANCELLED"
             /\ fstate \notin {"RUNNING", "PENDING"}
                    => (fstate' = fstate /\ stop_feeding' = stop_feeding)
      ]_vars

\* wait_for on a done observer has set the stop flag of its running feed task
C13_Witness ==
    /\ lastRet = "already_done"
    /\ observer.status = "done_ok"
    /\ on_timeout_calls = 0
    /\ stop_feeding
    /\ fstate = "RUNNING"

\* C14: an observer whose deadline start_time + timeout has never been reached
\* (every increase of the timeout came before the old deadline) is timed out
\* neither by the feed loop nor by a wait_for without explicit timeout
C14_NoTimeoutBeforeDeadline ==
    [][/\ (fpc = "f_crit" /\ fpc' # "f_crit" /\ ~done(observer))
            => deadline_reached # "no"
       /\ (cpc = "w_crit" /\ cpc' # "w_crit" /\ max_timeout = 0 /\ ~done(observer))
            => deadline_reached # "no"
      ]_vars

\* C15: a round of the feed loop that finds the stop flag clear, the observer not
\* done and the elapsed time at or past the (reassigned) timeout goes for the
\* timeout write; the write times out an observer that is still not done, and
\* the loop is left for good
C15_ExpiredRoundTimesOut ==
    [][/\ (/\ fpc = "f_loop" /\ fpc' # "f_loop"
           /\ ~stop_feeding /\ ~done(observer)
           /\ now - observer.start_time >= observer.timeout) => fpc' = "f_lock"
       /\ fpc = "f_lock" => fpc' \in {"f_lock", "f_crit"}
       /\ (fpc = "f_crit" /\ fpc' # "f_crit")
            => /\ fpc' = "f_unsub"
               /\ ~done(observer) => /\ observer'.status = "timed_out"
                                     /\ observer'.exception \in TimeoutKinds
      ]_vars

\* the feed loop has timed out an observer whose deadline was reached by a
\* reassignment of its timeout; no wait_for and no cancel of the future took part
C15_Witness ==
    /\ deadline_reached = "by_assignment"
    /\ observer.status = "timed_out"
    /\ fpc \in {"f_unsub", "f_setdone", "f_return", "f_finished"}
    /\ ~stop_feeding
    /\ lastRet = "none"
    /\ cpc = "idle"

\* C16: cancel(no_wait=False) on a running feed task sets the stop flag and waits;
\* it returns normally only with the done flag set and feed() past its loop and
\* its unsubscribe, and it raises only with the done flag not set when
\* stop_timeout has passed. A cancel that sets the stop flag never changes the
\* state of the running future, and cancel(no_wait=True) does not wait.
C16_CancelWaitsForDoneFlag ==
    [][/\ (cpc = "idle" /\ cpc' = "c_wait") => (fstate = "RUNNING" /\ stop_feeding')
       /\ cpc = "c_wait" => stop_feeding
       /\ (cpc = "c_wait" /\ cpc' # "c_wait" /\ fstate' = "CANCELLED")
            => /\ feed_done
               /\ fpc \in {"f_return", "f_finished"}
               /\ Receiver \notin subscribers
               /\ cpc' = "idle"
       /\ (cpc = "c_wait" /\ cpc' # "c_wait" /\ fstate' # "CANCELLED")
            => /\ ~feed_done
               /\ now >= wait_until
               /\ fstate' = "RUNNING"
       /\ (cpc = "idle" /\ ~stop_feeding /\ stop_feeding')
            => (fstate = "RUNNING" /\ fstate' = "RUNNING" /\ cpc' \in {"idle", "c_wait"})
      ]_vars

\* cancel(no_wait=False) has returned normally
C16_Witness ==
    /\ cpc = "idle"
    /\ fstate = "CANCELLED"
    /\ feed_done
    /\ stop_feeding

\* C17: once shutdown() has been called, an observer submitted before it becomes
\* terminal and its feed task finishes: receiver unsubscribed, done flag set
C17_ShutdownTerminatesAll ==
    (in_shutdown /\ fstate # "none")
        ~> (done(observer) /\ feed_done /\ Receiver \notin subscribers)

\* C18: an observer that is not done when its feed loop sees the runner shutting
\* down has not been timed out when the feed loop has made its cancel() call
C18_NeverTimedOut ==
    [][(fpc = "f_cancel" /\ fpc' # "f_cancel") => observer'.status # "timed_out"]_vars

\* what a goto_state() call leaves behind
callRecord == <<goto_from, dest_state, change_state_method, actions_run, goto_outcome>>

\* C19: goto_state(X) called while the device is in state X never enters the loop:
\* it returns with no transition action run and the device still in X
C19_GotoCurrentStateIsNoOp ==
    [][/\ (dpc = "idle" /\ dpc' = "g_loop") => dest_state' # current_state
       /\ (dpc = "idle" /\ dpc' = "idle" /\ callRecord' # callRecord)
            => /\ dest_state' = current_state
               /\ current_state' = current_state
               /\ actions_run' = <<>>
               /\ goto_outcome' = "returned"
      ]_vars

\* goto_state("UNIX") has returned at once on a device that was in UNIX
C19_Witness ==
    /\ dpc = "idle"
    /\ goto_outcome = "returned"
    /\ goto_from = "UNIX"
    /\ dest_state = "UNIX"
    /\ current_state = "UNIX"
    /\ actions_run = <<>>

\* transitions a -> b and b -> c are configured, with a hop from a toward c
\* through b and none from b toward c
HopChain(a, b, c) ==
    /\ a # b /\ b # c /\ a # c
    /\ <<a, b>> \in transitions
    /\ <<b, c>> \in transitions
    /\ state_hops[<<a, c>>] = b
    /\ state_hops[<<b, c>>] = "none"

\* C20: with transitions a -> b and b -> c and a hop from a toward c through b,
\* goto_state(c) called in a first runs the actions of a -> b and moves to b, then
\* runs the actions of b -> c, moves to c and returns: each transition's actions
\* once, in that order (the actions running through)
C20_HopThenDestination ==
    [][\A a, b, c \in DevStates :
          (/\ HopChain(a, b, c) /\ dpc = "g_loop" /\ goto_from = a /\ dest_state = c
           /\ goto_outcome' # "ActionError")
             => /\ current_state = a
                    => /\ actions_run = <<>>
                       /\ actions_run' = <<<<a, b>>>>
                       /\ current_state' = b
                       /\ dpc' = "g_loop"
                /\ current_state # a
                    => /\ current_state = b
                       /\ actions_run' = <<<<a, b>>, <<b, c>>>>
                       /\ current_state' = c
                       /\ dpc' = "idle"
                       /\ goto_outcome' = "returned"
      ]_vars

\* goto_state(c) has returned in c after the hop through b
C20_Witness ==
    \E a, b, c \in DevStates :
        /\ HopChain(a, b, c)
        /\ dpc = "idle"
        /\ goto_outcome = "returned"
        /\ goto_from = a
        /\ dest_state = c
        /\ current_state = c
        /\ actions_run = <<<<a, b>>, <<b, c>>>>

\* C21: a round of goto_state() whose next target state is undefined (no trigger
\* leads to it) or has no transition from the current state raises DeviceFailure
\* and leaves the current state as it is
C21_UnreachableRaisesDeviceFailure ==
    [][(dpc = "g_loop" /\ LET state == next_state(current_state, dest_state)
                          IN  \/ build_trigger_to_state(state) \notin goto_states_triggers
                              \/ <<current_state, state>> \notin transitions)
          => /\ goto_outcome' = "DeviceFailure"
             /\ dpc' = "idle"
             /\ current_state' = current_state
      ]_vars

\* C22: a round of goto_state() whose trigger fires either completes the
\* transition, or an action failed: then the traversal stops, the current state
\* is the one before the round and the caller gets DeviceFailure
C22_ActionFailureIsDeviceFailure ==
    [][(/\ dpc = "g_loop"
        /\ change_state_method' # NoMethod
        /\ can_trigger(current_state, change_state_method'))
          => \/ /\ current_state' = change_state_method'[2]
                /\ goto_outcome' \in {"none", "returned"}
             \/ /\ dpc' = "idle"
                /\ current_state' = current_state
                /\ actions_run' = actions_run
                /\ goto_outcome' = "DeviceFailure"
      ]_vars

\* C23: every call of goto_state() that entered the loop leaves it, by returning
\* or by raising
C23_GotoStateTerminates == (dpc = "g_loop") ~> (dpc = "idle")

\* the steps that are a call of get_cmd() or get_event()
GetStep == /\ start_outcome' = "none"
           /\ <<get_request, dev_observer, get_outcome, start_outcome>>'
                 # <<get_request, dev_observer, get_outcome, start_outcome>>

\* C24: get_cmd(name) / get_event(name) returns an observer of that name on the
\* device's connection exactly when the name is available for its type in the
\* current state; otherwise it raises WrongUsage and no observer is created
C24_ObserverOnlyForAllowedName ==
    [][GetStep =>
         IF get_request'[2] \in available_observer_names(get_request'[1], current_state)
         THEN /\ get_outcome' = "observer"
              /\ dev_observer'.type = get_request'[1]
              /\ dev_observer'.name = get_request'[2]
              /\ dev_observer'.connection = "moler_connection"
         ELSE /\ get_outcome' = "WrongUsage"
              /\ dev_observer' = NoObserver
      ]_vars

\* C25: at start() of an observer obtained with check_state the original
\* validator is reached exactly when the device is in the state the observer was
\* created in, whatever happened in between; in another state start() raises
\* CommandWrongState for a command and EventWrongState for an event. Without
\* check_state the original validator is reached in any state
C25_StartChecksCreationState ==
    [][(start_outcome = "none" /\ start_outcome' # "none") =>
         IF dev_observer.check_state /\ current_state # dev_observer.creation_state
         THEN start_outcome' = IF dev_observer.type = "cmd" THEN "CommandWrongState"
                               ELSE "EventWrongState"
         ELSE start_outcome' = "original_fun"
      ]_vars

\* a command created in NOT_CONNECTED with check_state was started in CONNECTED
\* and refused
C25_Witness ==
    /\ dev_observer.type = "cmd"
    /\ dev_observer.check_state
    /\ dev_observer.creation_state = "NOT_CONNECTED"
    /\ current_state = "CONNECTED"
    /\ start_outcome = "CommandWrongState"

\* C26: after a connection_made notification the device is CONNECTED, after a
\* connection_lost notification NOT_CONNECTED, until goto_state() moves it; a
\* notification of the state the device is in changes nothing of the device
C26_NotificationSetsState ==
    [][/\ last_set_by' = "made" => current_state' = "CONNECTED"
       /\ last_set_by' = "lost" => current_state' = "NOT_CONNECTED"
       /\ (/\ last_set_by' # last_set_by
           /\ \/ last_set_by' = "made" /\ current_state = "CONNECTED"
              \/ last_set_by' = "lost" /\ current_state = "NOT_CONNECTED")
            => /\ current_state' = current_state
               /\ UNCHANGED <<dpc, callRecord, gateVars>>
      ]_vars

\* goto_state("CONNECTED") had moved the device, then connection_lost came
C26_Witness ==
    /\ last_set_by = "lost"
    /\ current_state = "NOT_CONNECTED"
    /\ goto_outcome = "returned"
    /\ dest_state = "CONNECTED"
    /\ actions_run # <<>>

\* C27: the step of a connection_lost notification that finds a submitted command
\* not done leaves it terminal with the exception RemoteEndpointDisconnected
C27_ConnectionLostFailsCommand ==
    [][(/\ last_set_by' = "lost" /\ last_set_by # "lost"
        /\ SubmitReturned
        /\ ~done(observer))
          => /\ observer'.status = "done_err"
             /\ observer'.exception = "RemoteEndpointDisconnected"
      ]_vars

\* the steps in which the scheduler invokes the function of a job
FireStep == cb_calls' = cb_calls + 1

\* C28: when an invocation of the callback of a job that get_job() returned
\* raises, the job is paused after it if it was created with cancel_on_exception,
\* and is left running if not
C28_ExceptionPausesJob ==
    [][(FireStep /\ cb_last'[2] = "raise" /\ spc[cb_last'[1]] = "returned") =>
         LET t == cb_last'[1]
         IN  IF job[t].cancel_on_exception
             THEN job'[t].state = "paused"
             ELSE job'[t].state = "active"
      ]_vars

\* C29: the callback of a job is invoked only while the last call on the job was
\* start(): never before the first start(), never after a cancel()
C29_InvokedOnlyWhileStarted ==
    [][FireStep => job[cb_last'[1]].last_call = "start"]_vars

\* C30: Scheduler._object is only ever set while it is None; a constructor call
\* that finds an instance installed raises WrongUsage and leaves the instance, its
\* kind and its scheduler as they are
C30_SingletonInstalledOnce ==
    [][/\ sched_object' # sched_object => sched_object = 0
       /\ (ctor_calls' # ctor_calls /\ sched_object # 0)
            => /\ sched_outcome' \in {[sched_outcome EXCEPT ![t] = "WrongUsage"] :
                                        t \in Threads}
               /\ UNCHANGED <<sched_object, sched_type, sched_scheduler, sched_alive>>
      ]_vars

\* the first constructor call installed its instance, the second one was refused
C30_Witness ==
    /\ sched_object = 1
    /\ ctor_calls = 2
    /\ \E t \in Threads : sched_outcome[t] = "WrongUsage"
    /\ sched_scheduler \in sched_alive

\* C31: the feed loop calls connection_observer.cancel() on shutdown while it
\* holds the observer lock, hence never while the guarded receiver is inside
\* data_received() or wait_for is inside its timeout write
C31_ShutdownCancelUnderLock ==
    [][(fpc = "f_cancel" /\ fpc' = "f_loop")
          => /\ observer_lock = "feed"
             /\ rpc # "r_crit"
             /\ cpc # "w_crit"
      ]_vars

\* C32: once submit() has returned the future, a guarded receiver that is
\* subscribed when the future is cancelled or the observer is terminal is
\* unsubscribed in the end
C32_ReceiverEventuallyUnsubscribed ==
    (SubmitReturned /\ Receiver \in subscribers /\ (fstate = "CANCELLED" \/ done(observer)))
        ~> (Receiver \notin subscribers)

\* C33: a round of goto_state() invokes the trigger of the state it chose in that
\* round; when the state has no trigger it raises DeviceFailure and leaves the
\* device where it is, whatever an earlier round found
C33_TriggerOfThisRound ==
    [][dpc = "g_loop" =>
         LET state == next_state(current_state, dest_state)
         IN  IF build_trigger_to_state(state) \in goto_states_triggers
             THEN change_state_method' = build_trigger_to_state(state)
             ELSE /\ goto_outcome' = "DeviceFailure"
                  /\ dpc' = "idle"
                  /\ current_state' = current_state
      ]_vars

\* C34: with the table of TextualDevice itself, a round of goto_state() that runs
\* the transition to CONNECTED calls io_connection.open() and never close(), and
\* one that runs the transition to NOT_CONNECTED calls close() and never open()
C34_OpenOnConnectCloseOnDisconnect ==
    [][(/\ transitions = DefaultTransitions
        /\ dpc = "g_loop"
        /\ change_state_method' # NoMethod
        /\ can_trigger(current_state, change_state_method'))
          => /\ dest_state = "CONNECTED" => io_call' = "open"
             /\ dest_state = "NOT_CONNECTED" => io_call' = "close"
      ]_vars

\* C35: no call of get_job() made by threads that only call get_job() ends with
\* WrongUsage, and the jobs they got are all jobs of the one installed instance
C35_ConcurrentGetJobSucceeds ==
    /\ \A t \in Threads : sched_outcome[t] # "WrongUsage"
    /\ \A t \in Threads : job[t] # NoJob => job[t].scheduler = sched_scheduler

====
